---- MODULE Spec2Model ----
(***************************************************************************)
(* Model of greezez::mpsc (src/MPSCQueue.hpp, second draft, lines 360 on): *)
(* UniqueData handles, the UniqueDataPool block allocator and the          *)
(* multi-producer / single-consumer Queue.                                 *)
(*                                                                         *)
(* Memory is a set of cells.  A heap cell is one malloc'ed UniqueData, a   *)
(* pool cell is one chunk (BlockSize bytes) of a Data block.  A pointer to *)
(* a handle is the address of the cell its header was constructed in; the  *)
(* history names a handle by its producer and its number, so two handles   *)
(* constructed at one address are told apart.                              *)
(***************************************************************************)
EXTENDS Integers, Naturals, Sequences, FiniteSets, TLC

\* ------------------------------------------------------------------ bounds
\* heap addresses UniqueData::make can return (the dummy's is apart)
NumHeap == 3
\* UniqueDataPool(poolSize, dataBlockSize, success): the arguments used
PoolSize == 1
\* the smallest dataBlockSize used; the runs use this one and the next
DataBlockSize == 2
\* blocks the system allocator grants the pool in all
MaxBlocks == 2
\* handles one producer acquires in a run
MaxPush == 3
\* failed passes of the loop of one push call that are counted (more count as MaxFails)
MaxFails == 3

\* --------------------------------------------------------------- constants
\* GREEZEZ_CACHE_LINE_SIZE, which is details::Data::BlockSize
BlockSize == 64
\* sizeof(UniqueData): state_, allocType_, padding, offset_, data_, next_
SizeofUniqueData == 24
\* the payload sizes (template argument TypeSize) the producers use: 1 and 2 chunks
TypeSizes == {8, 48}
\* a payload size of 3 chunks, more than the smaller block has
LargeTypeSizes == {112}

\* --------------------------------------------------------------- addresses
NULL == -1
NONE == -2
Dummy == 0
HeapAddrs == 1 .. NumHeap
\* the values of the constructor argument dataBlockSize, and the largest
DataBlockSizes == {DataBlockSize, DataBlockSize + 1}
MaxDataBlockSize == DataBlockSize + 1
\* chunk c of block b (blocks are numbered in the order they are allocated;
\* every block gets the room of the largest)
Base(b) == NumHeap + 1 + (b - 1) * MaxDataBlockSize
BlockIds == 1 .. MaxBlocks
PoolAddrs == NumHeap + 1 .. NumHeap + MaxBlocks * MaxDataBlockSize
Addrs == {Dummy} \cup HeapAddrs \cup PoolAddrs
\* two producer threads share the queue; the first one owns the pool
Producers == {1, 2}
PoolOwner == 1

\* Dereferencing nullptr ends the program: a step that would do it is never taken.
Valid(a) == a # NULL

Range(s) == {s[i] : i \in DOMAIN s}
PosOf(s, x) == CHOOSE i \in DOMAIN s : s[i] = x

VARIABLES
    mem,            \* mem[a]: the bytes of cell a, read as a UniqueData header and a payload word
    heapLive,       \* heap addresses malloc has handed out and free has not taken back
    pool,           \* the UniqueDataPool: its blocks' headers, the list order, the cursor
    hchunks,        \* hchunks[a]: chunks of the handle last constructed at a (its static type)
    head_, tail_,   \* Queue::head_, Queue::tail_
    numOfInQueue_,  \* Queue::numOfInQueue_
    ppc, pud, ptail, pnext,   \* producers: position, handle held / push argument, locals of push
    pret,           \* the last push that returned: <<producer, argument, result>>
    pfails,         \* per producer: passes of the loop of the running push that did not return
    pcontend,       \* history: per producer, the pushes of other producers that ran during its running push
    cpc, chead, ctail, ctailNext, cfirstTry, \* consumer: position, locals of pop
    cret,           \* the result of the last pop (NONE while pop runs)
    cread,          \* what the consumer read from the handle it popped (empty before it reads)
    made,           \* history: made[a] = <<p, n>> when the handle last constructed at a is the n-th of producer p
    pcalls,         \* history: per producer, the addresses of the handles passed to push, in call order
    pushDone,       \* history: the handles <<p, n>> whose push has returned true
    popSeq,         \* history: the handles <<p, n>> pop has returned, in order
    cdoneAtCall,    \* history: pushDone as it was when the running pop was called
    pushedBytes,    \* history: the payload a handle held when it was passed to push
    released,       \* history: handles the consumer has released, until the address is handed out again
    liveAt,         \* history: liveAt[a] = the pool handles constructed at a on which release() was not called
    linkSeq,        \* history: the handles <<p, n>> in the order in which the compare-exchange of push on next_ linked them
    alloc,          \* details.hpp: the AllocatorBase, its MemoryBlocks (header words), list order and cursor
    own,            \* details.hpp: the pool-owner thread in tryAcquire / acquire, position and locals
    nacquired,      \* details.hpp: pointers tryAcquire / acquire have returned so far
    handles,        \* details.hpp: the pointers returned and not yet passed to allocationDataFree
    fre,            \* details.hpp: the threads in allocationDataFree, position and header address
    ctor,           \* the constructor of a pool run step by step: position, list, allocations, success
    dtor,           \* Queue::~Queue: "alive" before it is called, "run" inside it, "done" after it
    req,            \* a computation of the chunk count of a request: the class, the size, the result
    alt             \* a Queue of the variant with the embedded dummy, and the call last made on it

heapvars == <<heapLive, pool, hchunks>>
memvars == <<mem, heapvars>>
qvars == <<head_, tail_, numOfInQueue_>>
pvars == <<ppc, pud, ptail, pnext, pret>>
cvars == <<cpc, chead, ctail, ctailNext, cfirstTry, cret, cread>>
ghostvars == <<pushedBytes, released, made, liveAt, linkSeq>>
retryvars == <<pfails, pcontend>>
hvars == <<pcalls, pushDone, popSeq, cdoneAtCall, ghostvars, retryvars>>
progvars == <<memvars, qvars, pvars, cvars, hvars>>
avars == <<alloc, own, nacquired, handles, fre, ctor, dtor, req, alt>>
vars == <<progvars, avars>>

\* ------------------------------------------------------------- UniqueData
\* Memory no constructor has run on: all bytes zero (Recorded = 0, Pool = 0).
ZeroCell == [state |-> "Recorded", allocType |-> "Pool", offset |-> 0,
             data |-> NULL, next |-> NULL, payload |-> 0]

\* UniqueData(State, AllocType, offset, data), placed on the bytes `old`:
\* the header fields are set, the payload bytes stay as they were.
UniqueDataCtor(old, state, allocType, offset, data) ==
    [old EXCEPT !.state = state, !.allocType = allocType, !.offset = offset,
                !.data = data, !.next = NULL]

\* the constructor of the dummy with State::Recorded in the place of Utilized
UniqueDataDummyCtor_Recorded(old, data) ==
    [old EXCEPT !.state = "Recorded", !.allocType = "Heap", !.offset = 0,
                !.data = data, !.next = NULL]

\* UniqueData(nullptr_t, data): the constructor of the queue's dummy.
UniqueDataDummyCtor(old, data) ==
    [old EXCEPT !.state = "Utilized", !.allocType = "Heap", !.offset = 0,
                !.data = data, !.next = NULL]

\* The payload region of the handle at a: the word behind the header and the
\* whole of every further chunk of the handle.
PayloadBytes(a) ==
    <<mem[a].payload>> \o [i \in 1 .. hchunks[a] - 1 |-> mem[a + i]]

\* UniqueData::emplace<T>(v): v in the first word, zeroes in the further chunks.
EmplaceBytes(a, v) ==
    [b \in Addrs |->
        IF b = a THEN [mem[b] EXCEPT !.payload = v]
        ELSE IF b > a /\ b < a + hchunks[a] THEN ZeroCell
        ELSE mem[b]]

\* ------------------------------------------------------------ details::Data
\* Data::Data(blockCount, success) with a successful malloc.  The field
\* refused is history, not a member: acquire has returned nullptr for want
\* of room, and the block has not handed out its chunk 0 since.
DataCtor(blockCount) ==
    [numOfAcquired |-> 0, offset |-> 0, blockCount |-> blockCount, flag |-> 0,
     refused |-> FALSE]

\* Data::reset(): TRUE when the block is flagged and still has acquired data
DataReset(d) ==
    IF d.flag = 0 THEN [data |-> d, busy |-> FALSE]
    ELSE IF d.numOfAcquired = 0
         THEN [data |-> [d EXCEPT !.offset = 0, !.flag = 0], busy |-> FALSE]
         ELSE [data |-> d, busy |-> TRUE]

\* blockCount > (a - b) in size_t arithmetic: with b > a the difference wraps
\* to 2^64 - (b - a), which no request exceeds
ExceedsRoom(blockCount, a, b) ==
    IF b <= a THEN blockCount > a - b ELSE FALSE

\* Data::acquire(blockCount): the block after the call and the chunk handed
\* out (NULL for nullptr)
DataAcquire(d, blockCount) ==
    LET r == DataReset(d)
    IN  IF r.busy THEN [data |-> r.data, chunk |-> NULL]
        ELSE IF ExceedsRoom(blockCount, r.data.blockCount, r.data.offset)
             THEN [data |-> [r.data EXCEPT !.offset = 1, !.refused = TRUE], chunk |-> NULL]
             ELSE [data |-> [r.data EXCEPT !.offset = @ + blockCount,
                                           !.numOfAcquired = @ + 1,
                                           !.refused = @ /\ r.data.offset # 0],
                   chunk |-> r.data.offset]

\* ------------------------------------------------------------ details::List
\* List::emplaceFront: the new block goes in front; current_ is set by the first
ListEmplaceFront(pl) ==
    [blocks |-> Append(pl.blocks, DataCtor(pl.dataBlockSize)),
     list |-> <<Len(pl.blocks) + 1>> \o pl.list,
     current |-> IF pl.list = << >> THEN 1 ELSE pl.current + 1,
     dataBlockSize |-> pl.dataBlockSize]

\* List::updateCurrent: the next node, or back to the head
ListUpdateCurrent(pl) ==
    [pl EXCEPT !.current = IF @ < Len(pl.list) THEN @ + 1 ELSE 1]

\* List::emplaceAndUpdateCurrent: the new block goes behind current_ and becomes current_
ListEmplaceAndUpdateCurrent(pl) ==
    IF pl.list = << >> THEN ListEmplaceFront(pl)
    ELSE [blocks |-> Append(pl.blocks, DataCtor(pl.dataBlockSize)),
          list |-> SubSeq(pl.list, 1, pl.current) \o <<Len(pl.blocks) + 1>>
                   \o SubSeq(pl.list, pl.current + 1, Len(pl.list)),
          current |-> pl.current + 1,
          dataBlockSize |-> pl.dataBlockSize]

\* ----------------------------------------------------------- UniqueDataPool
RECURSIVE PoolOf(_, _)
PoolOf(n, dataBlockSize) ==
    IF n = 0 THEN [blocks |-> << >>, list |-> << >>, current |-> 0,
                   dataBlockSize |-> dataBlockSize]
    ELSE ListEmplaceFront(PoolOf(n - 1, dataBlockSize))

\* UniqueDataPool::UniqueDataPool(poolSize, dataBlockSize, success), success = true
UniqueDataPoolCtor(dataBlockSize) == PoolOf(PoolSize, dataBlockSize)

\* the constexpr blockCount of tryAcquire<TypeSize>
BlockCountFor(typeSize) ==
    IF SizeofUniqueData + typeSize <= BlockSize THEN 1
    ELSE ((SizeofUniqueData + typeSize) \div BlockSize) + 1

\* one pass of the loop of tryAcquire on the current block
TryOnCurrent(pl, blockCount) ==
    LET b == pl.list[pl.current]
        r == DataAcquire(pl.blocks[b], blockCount)
    IN  [pool |-> [pl EXCEPT !.blocks[b] = r.data],
         ptr |-> IF r.chunk = NULL THEN NULL ELSE Base(b) + r.chunk,
         offset |-> pl.blocks[b].offset,
         chunks |-> blockCount]

\* UniqueDataPool::tryAcquire<TypeSize>(): the current block, then once the next
TryAcquire(pl, blockCount) ==
    LET r1 == TryOnCurrent(pl, blockCount)
    IN  IF r1.ptr # NULL THEN r1
        ELSE TryOnCurrent(ListUpdateCurrent(r1.pool), blockCount)

\* UniqueDataPool::acquire<TypeSize>(): tryAcquire, then a new block (when
\* the system grants one) and tryAcquire again
Acquire(pl, blockCount, granted) ==
    LET r1 == TryAcquire(pl, blockCount)
    IN  IF r1.ptr # NULL THEN r1
        ELSE IF ~granted THEN r1
        ELSE TryAcquire(ListEmplaceAndUpdateCurrent(r1.pool), blockCount)

\* UniqueData::release(): the block whose header the code computes from data_
\* and offset_, when that address is the base of a block
BlockAt(addr) ==
    {b \in BlockIds : Base(b) = addr}

\* ------------------------------------------------------------------ Queue
\* Queue::Queue with a successful malloc of the dummy.
QueueCtor ==
    /\ mem = [a \in Addrs |-> IF a = Dummy THEN UniqueDataDummyCtor(ZeroCell, Dummy) ELSE ZeroCell]
    /\ heapLive = {Dummy}
    /\ head_ = Dummy
    /\ tail_ = Dummy
    /\ numOfInQueue_ = 0

\* size_t arithmetic of the atomic counters (numOfInQueue_, numOfAcquired):
\* a variable holds the representative nearest to 0 of the value modulo 2^64,
\* so -1 stands for 2^64 - 1.
FetchAdd(n) == n + 1
FetchSub(n) == n - 1

\* ---------------------------------------------------------------- producer
\* The addresses malloc may return: any freed one, or a never used one.  Never
\* used addresses are interchangeable, so the lowest stands for all of them.
MallocChoices ==
    LET free == HeapAddrs \ heapLive
        fresh == {a \in free : mem[a].data = NULL}
    IN  (free \ fresh) \cup {a \in fresh : \A b \in fresh : a <= b}

\* UniqueData::make<TypeSize>(): malloc succeeds, the header is constructed in place.
Make(p) ==
    /\ ppc[p] = "idle"
    /\ Len(pcalls[p]) < MaxPush
    /\ \E a \in MallocChoices :
        /\ mem' = [mem EXCEPT ![a] = UniqueDataCtor(mem[a], "Recorded", "Heap", 0, a)]
        /\ heapLive' = heapLive \cup {a}
        /\ hchunks' = [hchunks EXCEPT ![a] = 1]
        /\ released' = released \ {a}
        /\ made' = [made EXCEPT ![a] = <<p, Len(pcalls[p]) + 1>>]
        /\ pud' = [pud EXCEPT ![p] = a]
    /\ ppc' = [ppc EXCEPT ![p] = "made"]
    /\ UNCHANGED <<pool, qvars, ptail, pnext, pret, cvars, pcalls, pushDone, popSeq,
                   cdoneAtCall, pushedBytes, liveAt, retryvars>>
    /\ UNCHANGED avars
    /\ UNCHANGED linkSeq

\* UniqueData::emplace<T>(args): the producer constructs its payload in place.
\* The payload is the number of the message among those of this producer.
Emplace(p) ==
    /\ ppc[p] = "made"
    /\ mem' = EmplaceBytes(pud[p], Len(pcalls[p]) + 1)
    /\ ppc' = [ppc EXCEPT ![p] = "have"]
    /\ UNCHANGED <<heapvars, qvars, pud, ptail, pnext, pret, cvars, hvars>>
    /\ UNCHANGED avars

\* The producer takes what tryAcquire / acquire returned: r.ptr is nullptr, or
\* the address at which the UniqueData was constructed.
Obtain(p, r) ==
    /\ pool' = r.pool
    /\ IF r.ptr = NULL
       THEN UNCHANGED <<mem, hchunks, released, made, liveAt, pud, ppc>>
       ELSE /\ mem' = [mem EXCEPT ![r.ptr] =
                          UniqueDataCtor(mem[r.ptr], "Recorded", "Pool", r.offset, r.ptr)]
            /\ hchunks' = [hchunks EXCEPT ![r.ptr] = r.chunks]
            /\ released' = released \ {r.ptr}
            /\ made' = [made EXCEPT ![r.ptr] = <<p, Len(pcalls[p]) + 1>>]
            /\ liveAt' = [liveAt EXCEPT ![r.ptr] = @ + 1]
            /\ pud' = [pud EXCEPT ![p] = r.ptr]
            /\ ppc' = [ppc EXCEPT ![p] = "made"]
    /\ UNCHANGED <<heapLive, qvars, ptail, pnext, pret, cvars, pcalls, pushDone, popSeq,
                   cdoneAtCall, pushedBytes, retryvars>>
    /\ UNCHANGED avars
    /\ UNCHANGED linkSeq

\* UniqueDataPool::tryAcquire<TypeSize>()
PoolTryAcquire(p) ==
    /\ ppc[p] = "idle"
    /\ Len(pcalls[p]) < MaxPush
    /\ \E ts \in TypeSizes : Obtain(p, TryAcquire(pool, BlockCountFor(ts)))

\* UniqueDataPool::acquire<TypeSize>() with TypeSize among sizes; the system
\* grants a new block or not
PoolAcquireSized(p, sizes) ==
    /\ ppc[p] = "idle"
    /\ Len(pcalls[p]) < MaxPush
    /\ \E ts \in sizes :
       \E granted \in {g \in BOOLEAN : g => Len(pool.blocks) < MaxBlocks} :
           Obtain(p, Acquire(pool, BlockCountFor(ts), granted))

PoolAcquire(p) == PoolAcquireSized(p, TypeSizes)

\* acquire<TypeSize>() with the smallest TypeSize
PoolAcquireSmall(p) == PoolAcquireSized(p, {8})

\* acquire<TypeSize>() with a large TypeSize
PoolAcquireLarge(p) == PoolAcquireSized(p, LargeTypeSizes)

\* one more pass of the loop of push that did not return
FailedPass(p) ==
    [pfails EXCEPT ![p] = IF @ < MaxFails THEN @ + 1 ELSE @]

\* a push call is under way
PushInProgress == \E p \in Producers : ppc[p] \notin {"idle", "made", "have"}

\* the push calls under way, by the producers in ps
RunningPushes(ps) ==
    {<<q, Len(pcalls[q])>> : q \in {r \in ps : ppc[r] \notin {"idle", "made", "have"}}}

\* producer p enters the loop of push: it meets the pushes under way, and they meet it
Contend(p) ==
    [q \in Producers |->
        IF q = p THEN RunningPushes(Producers \ {p})
        ELSE IF RunningPushes({q}) # {} THEN pcontend[q] \cup {<<p, Len(pcalls[p]) + 1>>}
        ELSE pcontend[q]]

\* PushCall with the counter bumped before the nullptr test
PushCall_CountsFirst(p) ==
    /\ ppc[p] \in {"idle", "have"}
    /\ numOfInQueue_' = FetchAdd(numOfInQueue_)
    /\ IF pud[p] = NULL
       THEN /\ pret' = <<p, pud[p], "false">>
            /\ UNCHANGED <<ppc, pcalls, pushedBytes, pcontend>>
       ELSE /\ ppc' = [ppc EXCEPT ![p] = "loadTail"]
            /\ pcalls' = [pcalls EXCEPT ![p] = Append(@, pud[p])]
            /\ pushedBytes' = [pushedBytes EXCEPT ![pud[p]] = PayloadBytes(pud[p])]
            /\ pcontend' = Contend(p)
            /\ UNCHANGED pret
    /\ UNCHANGED <<memvars, head_, tail_, pud, ptail, pnext, cvars, pushDone, popSeq,
                   cdoneAtCall, released, made, liveAt, pfails>>
    /\ UNCHANGED avars
    /\ UNCHANGED linkSeq

\* Queue::push, entry: the nullptr test.  A producer that holds no handle
\* (make returned nullptr) passes nullptr.
PushCall(p) ==
    /\ ppc[p] \in {"idle", "have"}
    /\ IF pud[p] = NULL
       THEN /\ pret' = <<p, pud[p], "false">>
            /\ UNCHANGED <<ppc, pcalls, pushedBytes, pcontend>>
       ELSE /\ ppc' = [ppc EXCEPT ![p] = "loadTail"]
            /\ pcalls' = [pcalls EXCEPT ![p] = Append(@, pud[p])]
            /\ pushedBytes' = [pushedBytes EXCEPT ![pud[p]] = PayloadBytes(pud[p])]
            /\ pcontend' = Contend(p)
            /\ UNCHANGED pret
    /\ UNCHANGED <<memvars, qvars, pud, ptail, pnext, cvars, pushDone, popSeq,
                   cdoneAtCall, released, made, liveAt, pfails>>
    /\ UNCHANGED avars
    /\ UNCHANGED linkSeq

\* tail = tail_.load(acquire)
PushLoadTail(p) ==
    /\ ppc[p] = "loadTail"
    /\ ptail' = [ptail EXCEPT ![p] = tail_]
    /\ ppc' = [ppc EXCEPT ![p] = "loadNext"]
    /\ UNCHANGED <<memvars, qvars, pud, pnext, pret, cvars, hvars>>
    /\ UNCHANGED avars

\* next = tail->next_.load(acquire), then the branch on next == nullptr
PushLoadNext(p) ==
    /\ ppc[p] = "loadNext"
    /\ Valid(ptail[p])
    /\ pnext' = [pnext EXCEPT ![p] = mem[ptail[p]].next]
    /\ ppc' = [ppc EXCEPT ![p] = IF mem[ptail[p]].next = NULL THEN "casNext" ELSE "helpTail"]
    /\ UNCHANGED <<memvars, qvars, pud, ptail, pret, cvars, hvars>>
    /\ UNCHANGED avars

\* tail->next_.compare_exchange_weak(next, uniqueData) with next == nullptr
PushCasNext(p) ==
    /\ ppc[p] = "casNext"
    /\ Valid(ptail[p])
    /\ IF mem[ptail[p]].next = NULL
       THEN /\ mem' = [mem EXCEPT ![ptail[p]].next = pud[p]]
            /\ ppc' = [ppc EXCEPT ![p] = "casTail"]
            /\ linkSeq' = Append(linkSeq, <<p, Len(pcalls[p])>>)
            /\ UNCHANGED <<pnext, pfails>>
       ELSE /\ pnext' = [pnext EXCEPT ![p] = mem[ptail[p]].next]
            /\ ppc' = [ppc EXCEPT ![p] = "loadTail"]
            /\ pfails' = FailedPass(p)
            /\ UNCHANGED <<mem, linkSeq>>
    /\ UNCHANGED <<heapvars, qvars, pud, ptail, pret, cvars, pcalls, pushDone, popSeq, cdoneAtCall,
                   pushedBytes, released, made, liveAt, pcontend>>
    /\ UNCHANGED avars

\* compare_exchange_weak may fail although the values are equal; the loop retries.
PushCasNextSpurious(p) ==
    /\ ppc[p] = "casNext"
    /\ Valid(ptail[p])
    /\ mem[ptail[p]].next = NULL
    /\ ppc' = [ppc EXCEPT ![p] = "loadTail"]
    /\ pfails' = FailedPass(p)
    /\ UNCHANGED <<memvars, qvars, pud, ptail, pnext, pret, cvars, pcalls, pushDone, popSeq, cdoneAtCall, ghostvars, pcontend>>
    /\ UNCHANGED avars

\* the compare-exchange after the link applied to head_ instead of tail_
PushCasTail_OnHead(p) ==
    /\ ppc[p] = "casTail"
    /\ head_' = IF head_ = ptail[p] THEN pud[p] ELSE head_
    /\ ptail' = [ptail EXCEPT ![p] = head_]
    /\ ppc' = [ppc EXCEPT ![p] = "fetchAdd"]
    /\ UNCHANGED <<memvars, tail_, numOfInQueue_, pud, pnext, pret, cvars, hvars>>
    /\ UNCHANGED avars

\* tail_.compare_exchange_strong(tail, uniqueData)
PushCasTail(p) ==
    /\ ppc[p] = "casTail"
    /\ tail_' = IF tail_ = ptail[p] THEN pud[p] ELSE tail_
    /\ ptail' = [ptail EXCEPT ![p] = tail_]
    /\ ppc' = [ppc EXCEPT ![p] = "fetchAdd"]
    /\ UNCHANGED <<memvars, head_, numOfInQueue_, pud, pnext, pret, cvars, hvars>>
    /\ UNCHANGED avars

\* numOfInQueue_.fetch_add(1); return true
PushFetchAdd(p) ==
    /\ ppc[p] = "fetchAdd"
    /\ numOfInQueue_' = FetchAdd(numOfInQueue_)
    /\ pret' = <<p, pud[p], "true">>
    /\ pushDone' = pushDone \cup {<<p, Len(pcalls[p])>>}
    /\ ppc' = [ppc EXCEPT ![p] = "idle"]
    /\ pud' = [pud EXCEPT ![p] = NULL]
    /\ ptail' = [ptail EXCEPT ![p] = NULL]
    /\ pnext' = [pnext EXCEPT ![p] = NULL]
    /\ pfails' = [pfails EXCEPT ![p] = 0]
    /\ pcontend' = [pcontend EXCEPT ![p] = {}]
    /\ UNCHANGED <<memvars, head_, tail_, cvars, pcalls, popSeq, cdoneAtCall, ghostvars>>
    /\ UNCHANGED avars

\* else branch: tail_.compare_exchange_strong(tail, next), then retry
PushHelpTail(p) ==
    /\ ppc[p] = "helpTail"
    /\ tail_' = IF tail_ = ptail[p] THEN pnext[p] ELSE tail_
    /\ ptail' = [ptail EXCEPT ![p] = tail_]
    /\ ppc' = [ppc EXCEPT ![p] = "loadTail"]
    /\ pfails' = FailedPass(p)
    /\ UNCHANGED <<memvars, head_, numOfInQueue_, pud, pnext, pret, cvars, pcalls, pushDone, popSeq, cdoneAtCall, ghostvars, pcontend>>
    /\ UNCHANGED avars

\* ---------------------------------------------------------------- consumer
\* Queue::pop, entry: firstTry = true; head = head_.load(acquire)
PopCall ==
    /\ cpc = "idle"
    /\ cfirstTry' = TRUE
    /\ chead' = head_
    /\ cret' = NONE
    /\ cread' = << >>
    /\ cdoneAtCall' = pushDone
    /\ cpc' = "loadTail"
    /\ UNCHANGED <<memvars, qvars, pvars, ctail, ctailNext, pcalls, pushDone, popSeq, ghostvars, retryvars>>
    /\ UNCHANGED avars

\* tail = tail_.load(acquire)
PopLoadTail ==
    /\ cpc = "loadTail"
    /\ ctail' = tail_
    /\ cpc' = "loadTailNext"
    /\ UNCHANGED <<memvars, qvars, pvars, chead, ctailNext, cfirstTry, cret, cread, hvars>>
    /\ UNCHANGED avars

\* tailNext = tail->next_.load(acquire)
PopLoadTailNext ==
    /\ cpc = "loadTailNext"
    /\ Valid(ctail)
    /\ ctailNext' = mem[ctail].next
    /\ cpc' = "branch"
    /\ UNCHANGED <<memvars, qvars, pvars, chead, ctail, cfirstTry, cret, cread, hvars>>
    /\ UNCHANGED avars

\* return: the locals of pop go out of scope
PopReturn(result) ==
    /\ cret' = result
    /\ cread' = << >>
    /\ cpc' = "idle"
    /\ chead' = NULL
    /\ ctail' = NULL
    /\ ctailNext' = NULL
    /\ cfirstTry' = TRUE
    /\ cdoneAtCall' = {}
    /\ popSeq' = IF result = NULL THEN popSeq ELSE Append(popSeq, made[result])

\* if (head == tail): deliver a Recorded head, else help tail_ and report empty
PopEq ==
    /\ cpc = "branch"
    /\ Valid(chead)
    /\ chead = ctail
    /\ IF mem[chead].state = "Recorded"
       THEN /\ mem' = [mem EXCEPT ![chead].state = "Utilized"]
            /\ PopReturn(chead)
            /\ UNCHANGED tail_
       ELSE /\ tail_' = IF ctailNext # NULL /\ tail_ = ctail THEN ctailNext ELSE tail_
            /\ PopReturn(NULL)
            /\ UNCHANGED mem
    /\ UNCHANGED <<heapvars, head_, numOfInQueue_, pvars, pcalls, pushDone, ghostvars, retryvars>>
    /\ UNCHANGED avars

\* head != tail: headNext = head->next_.load(acquire); head_.store(headNext, release)
PopAdvance ==
    /\ cpc = "branch"
    /\ Valid(chead)
    /\ chead # ctail
    /\ head_' = mem[chead].next
    /\ cpc' = "detach"
    /\ UNCHANGED <<memvars, tail_, numOfInQueue_, pvars, chead, ctail, ctailNext,
                   cfirstTry, cret, cread, hvars>>
    /\ UNCHANGED avars

\* numOfInQueue_.fetch_sub(1); then the test of the detached head's state_:
\* a Utilized head is skipped once (continue reloads head_), a Recorded one is delivered.
PopDetach ==
    /\ cpc = "detach"
    /\ Valid(chead)
    /\ numOfInQueue_' = FetchSub(numOfInQueue_)
    /\ IF mem[chead].state = "Utilized"
       THEN IF ~cfirstTry
            THEN /\ PopReturn(NULL)
                 /\ UNCHANGED mem
            ELSE /\ cfirstTry' = FALSE
                 /\ chead' = head_
                 /\ cpc' = "loadTail"
                 /\ UNCHANGED <<mem, popSeq, cret, cread, ctail, ctailNext, cdoneAtCall>>
       ELSE /\ mem' = [mem EXCEPT ![chead].state = "Utilized"]
            /\ PopReturn(chead)
    /\ UNCHANGED <<heapvars, head_, tail_, pvars, pcalls, pushDone, ghostvars, retryvars>>
    /\ UNCHANGED avars

\* The consumer reads the payload of the handle pop returned.
ReadPayload ==
    /\ cpc = "idle"
    /\ cret \notin {NONE, NULL}
    /\ cread = << >>
    /\ cread' = PayloadBytes(cret)
    /\ UNCHANGED <<memvars, qvars, pvars, cpc, chead, ctail, ctailNext, cfirstTry, cret, hvars>>
    /\ UNCHANGED avars

\* What free may leave in a cell: the header bytes as they were, or overwritten
\* by the allocator's bookkeeping.
FreedCells(c) ==
    {[c EXCEPT !.state = st, !.next = nx] :
        st \in {"Recorded", "Utilized"}, nx \in {c.next, NULL}}

\* UniqueData::release() on the handle at a, in the memory m with the live heap
\* addresses hl and the pool pl: the states it may leave.  free of an address
\* that is not allocated ends the program (no state).
ReleaseOutcomes(m, hl, pl, a) ==
    LET h == m[a]
    IN  IF h.data = NULL
        THEN {[mem |-> m, heapLive |-> hl, pool |-> pl]}
        ELSE IF h.allocType = "Heap"
        THEN IF h.data \notin hl THEN {}
             ELSE {[mem |-> [m EXCEPT ![h.data] = c], heapLive |-> hl \ {h.data},
                    pool |-> pl] : c \in FreedCells(m[h.data])}
        ELSE {[mem |-> m, heapLive |-> hl,
               pool |-> [pl EXCEPT !.blocks =
                           [b \in DOMAIN pl.blocks |->
                               IF b \in BlockAt(h.data - h.offset)
                               THEN [pl.blocks[b] EXCEPT !.numOfAcquired = FetchSub(@)]
                               ELSE pl.blocks[b]]]]}

\* UniqueData::release() on the handle pop returned, after the payload was read;
\* the consumer then drops the pointer.
Release ==
    /\ cpc = "idle"
    /\ cret \notin {NONE, NULL}
    /\ cread # << >>
    /\ \E o \in ReleaseOutcomes(mem, heapLive, pool, cret) :
          mem' = o.mem /\ heapLive' = o.heapLive /\ pool' = o.pool
    /\ released' = released \cup {cret}
    /\ liveAt' = [liveAt EXCEPT ![cret] = IF @ > 0 THEN @ - 1 ELSE 0]
    /\ cret' = NONE
    /\ cread' = << >>
    /\ UNCHANGED <<hchunks, qvars, pvars, cpc, chead, ctail, ctailNext, cfirstTry,
                   pcalls, pushDone, popSeq, cdoneAtCall, pushedBytes, made, retryvars>>
    /\ UNCHANGED avars
    /\ UNCHANGED linkSeq

\* release() on the handle pop returned, then its destructor, which calls
\* release() again.
ReleaseAndDestroy ==
    /\ cpc = "idle"
    /\ cret \notin {NONE, NULL}
    /\ cread # << >>
    /\ \E o1 \in ReleaseOutcomes(mem, heapLive, pool, cret) :
       \E o2 \in ReleaseOutcomes(o1.mem, o1.heapLive, o1.pool, cret) :
          mem' = o2.mem /\ heapLive' = o2.heapLive /\ pool' = o2.pool
    /\ released' = released \cup {cret}
    /\ liveAt' = [liveAt EXCEPT ![cret] = IF @ > 0 THEN @ - 1 ELSE 0]
    /\ cret' = NONE
    /\ cread' = << >>
    /\ UNCHANGED <<hchunks, qvars, pvars, cpc, chead, ctail, ctailNext, cfirstTry,
                   pcalls, pushDone, popSeq, cdoneAtCall, pushedBytes, made, retryvars>>
    /\ UNCHANGED avars
    /\ UNCHANGED linkSeq

\* ------------------------------------------------------------ Queue::~Queue
\* ~Queue is called by the consumer thread while no push and no pop runs.
DtorCall ==
    /\ dtor = "alive"
    /\ cpc = "idle"
    /\ \A p \in Producers : ppc[p] \in {"idle", "made", "have"}
    /\ dtor' = "run"
    /\ cret' = NONE
    /\ cread' = << >>
    /\ UNCHANGED <<memvars, qvars, pvars, cpc, chead, ctail, ctailNext, cfirstTry, hvars>>
    /\ UNCHANGED <<alloc, own, nacquired, handles, fre, ctor, req, alt>>

\* while (numOfInQueue() > 0) pop() ...: the test succeeds and pop is entered.
\* The counter is unsigned: every value but 0 is > 0.
DtorPop ==
    /\ dtor = "run"
    /\ cret = NONE
    /\ numOfInQueue_ # 0
    /\ PopCall

\* the steps of the pop the destructor called
DtorPopStep ==
    /\ dtor = "run"
    /\ (PopLoadTail \/ PopLoadTailNext \/ PopEq \/ PopAdvance \/ PopDetach)

\* ... ->release() on what pop returned
DtorRelease ==
    /\ dtor = "run"
    /\ cpc = "idle"
    /\ cret # NONE
    /\ Valid(cret)
    /\ \E o \in ReleaseOutcomes(mem, heapLive, pool, cret) :
          mem' = o.mem /\ heapLive' = o.heapLive /\ pool' = o.pool
    /\ released' = released \cup {cret}
    /\ liveAt' = [liveAt EXCEPT ![cret] = IF @ > 0 THEN @ - 1 ELSE 0]
    /\ cret' = NONE
    /\ UNCHANGED <<hchunks, qvars, pvars, cpc, chead, ctail, ctailNext, cfirstTry, cread,
                   pcalls, pushDone, popSeq, cdoneAtCall, pushedBytes, made, linkSeq, retryvars>>
    /\ UNCHANGED avars

\* the test fails: std::free(dummy)
DtorFree ==
    /\ dtor = "run"
    /\ cpc = "idle"
    /\ cret = NONE
    /\ numOfInQueue_ = 0
    /\ Dummy \in heapLive
    /\ \E c \in FreedCells(mem[Dummy]) : mem' = [mem EXCEPT ![Dummy] = c]
    /\ heapLive' = heapLive \ {Dummy}
    /\ dtor' = "done"
    /\ UNCHANGED <<pool, hchunks, qvars, pvars, cvars, hvars>>
    /\ UNCHANGED <<alloc, own, nacquired, handles, fre, ctor, req, alt>>

\* ------------------------------------------- details.hpp: the older allocator
\* MemoryBlock<TNumOfChunk, TChunkSize>: the template arguments
NumOfChunk == 3
ChunkSize == 64
\* AllocatorBase(numOfMemoryBlocks, success): the argument, and the blocks the
\* system grants in all
NumOfMemoryBlocks == 1
MaxMemoryBlocks == 2
\* pointers tryAcquire / acquire return in a run
MaxAcquire == 3
\* the threads that call allocationDataFree
FreeThreads == {1, 2}
\* the sizes passed to tryAcquire / acquire: 1 and 2 chunks
Sizes == {8, 100}

\* sizeof(MemoryBlockHeader): two cache lines; sizeof(UniqueRawDataHeader)
SizeofMemoryBlockHeader == 128
SizeofUniqueRawDataHeader == 8
\* byte offsets of isFull, offset and numOfAcquired in MemoryBlockHeader
OffIsFull == 0
OffOffset == 8
OffNumOfAcquired == 64

\* The words of a block's header the program touches, by byte offset: isFull,
\* offset, the first word of padding1, numOfAcquired, the first word of padding2.
Words == {OffIsFull, OffOffset, 16, OffNumOfAcquired, 72}
\* what the first word of padding2 may hold after malloc (it is not initialized)
PadValues == {0, 1}
\* A MemoryBlockHeader* the model can follow: the header of a block, or the
\* address sizeof(UniqueRawDataHeader) bytes behind it.
HeaderDeltas == {0, SizeofUniqueRawDataHeader}

\* the address malloc returned for block b (data_)
ABase(b) == (b - 1) * (SizeofMemoryBlockHeader + NumOfChunk * ChunkSize)

\* MemoryBlock::MemoryBlock(success) with a successful malloc: the three
\* members are stored, the padding is what malloc left (pad; the word of
\* padding1 is never read)
MemoryBlockCtor(pad) ==
    [w \in Words |-> IF w = 72 THEN pad ELSE 0]

\* List::emplaceFront
AllocEmplaceFront(al, blk) ==
    [blocks |-> Append(al.blocks, blk),
     list |-> <<Len(al.blocks) + 1>> \o al.list,
     current |-> IF al.list = << >> THEN 1 ELSE al.current + 1]

\* List::emplaceAndUpdateCurrent
AllocEmplaceAndUpdateCurrent(al, blk) ==
    IF al.list = << >> THEN AllocEmplaceFront(al, blk)
    ELSE [blocks |-> Append(al.blocks, blk),
          list |-> SubSeq(al.list, 1, al.current) \o <<Len(al.blocks) + 1>>
                   \o SubSeq(al.list, al.current + 1, Len(al.list)),
          current |-> al.current + 1]

AllocEmpty == [blocks |-> << >>, list |-> << >>, current |-> 0]

\* AllocatorBase::AllocatorBase(numOfMemoryBlocks, success), success = true
RECURSIVE AllocOf(_, _)
AllocOf(n, pads) ==
    IF n = 0 THEN AllocEmpty
    ELSE AllocEmplaceFront(AllocOf(n - 1, pads), MemoryBlockCtor(pads[n]))

AllocatorBaseCtor(pads) == AllocOf(NumOfMemoryBlocks, pads)

\* numOfChunk of AllocatorBase::tryAcquire(size)
NumOfChunkFor(size) ==
    IF SizeofUniqueRawDataHeader + size <= ChunkSize THEN 1
    ELSE ((SizeofUniqueRawDataHeader + size) \div ChunkSize) + 1

\* memoryBlockList_.current()
Cur == alloc.list[alloc.current]

OwnerIdle ==
    [pc |-> "idle", op |-> "none", num |-> 0, first |-> TRUE, grew |-> FALSE,
     last |-> 0, off |-> 0, ptr |-> NULL]

FreeIdle == [pc |-> "idle", hdr |-> NULL]

\* the block and the displacement in it of the header address addr
Located(addr) ==
    {l \in (DOMAIN alloc.blocks) \X HeaderDeltas : ABase(l[1]) + l[2] = addr}

\* the block and the word that the member at byte offset field of the
\* MemoryBlockHeader at fre[f].hdr is
MemberAt(f, field) ==
    LET l == CHOOSE x \in Located(fre[f].hdr) : TRUE
    IN  <<l[1], l[2] + field>>

\* AllocatorBase::tryAcquire(size) / acquire(size), entry: numOfChunk, firstTry = true
AllocCall(op) ==
    /\ own.pc = "idle"
    /\ nacquired < MaxAcquire
    /\ \E size \in Sizes :
         own' = [OwnerIdle EXCEPT !.pc = "readOffset", !.op = op, !.num = NumOfChunkFor(size)]
    /\ UNCHANGED <<progvars, dtor, req, alt, ctor, alloc, nacquired, handles, fre>>

TryAcquireCall == AllocCall("tryAcquire")

AcquireCall == AllocCall("acquire")

\* lastOffset = data.offset()
AllocReadOffset ==
    /\ own.pc = "readOffset"
    /\ own' = [own EXCEPT !.last = alloc.blocks[Cur][OffOffset], !.pc = "checkFull"]
    /\ UNCHANGED <<progvars, dtor, req, alt, ctor, alloc, nacquired, handles, fre>>

\* MemoryBlock::acquire: if (isFull.load() == 1) return nullptr
AllocCheckFull ==
    /\ own.pc = "checkFull"
    /\ own' = [own EXCEPT !.pc = IF alloc.blocks[Cur][OffIsFull] = 1 THEN "failed" ELSE "carve"]
    /\ UNCHANGED <<progvars, dtor, req, alt, ctor, alloc, nacquired, handles, fre>>

\* header_->offset is a plain member that release() writes on other threads
\* while acquire runs: each later use of it in acquire yields the value acquire
\* read or wrote last (kept in a register) or the value in memory (read again).
OffsetSeen == {own.off, alloc.blocks[Cur][OffOffset]}

\* MemoryBlock::acquire: if (numOfBlock > (TNumOfChunk - header_->offset))
AllocCarve ==
    /\ own.pc = "carve"
    /\ LET off == alloc.blocks[Cur][OffOffset]
       IN  own' = [own EXCEPT !.off = off,
                              !.pc = IF own.num > NumOfChunk - off THEN "seal" ELSE "ptr"]
    /\ UNCHANGED <<progvars, dtor, req, alt, ctor, alloc, nacquired, handles, fre>>

\* ptr = data_ + sizeof(MemoryBlockHeader) + header_->offset * TChunkSize
AllocPtr ==
    /\ own.pc = "ptr"
    /\ \E off \in OffsetSeen :
          own' = [own EXCEPT
                     !.ptr = ABase(Cur) + SizeofMemoryBlockHeader + off * ChunkSize,
                     !.pc = "bump"]
    /\ UNCHANGED <<progvars, dtor, req, alt, ctor, alloc, nacquired, handles, fre>>

\* header_->offset += numOfBlock
AllocBump ==
    /\ own.pc = "bump"
    /\ \E off \in OffsetSeen :
          /\ alloc' = [alloc EXCEPT !.blocks[Cur][OffOffset] = off + own.num]
          /\ own' = [own EXCEPT !.off = off + own.num, !.pc = "testFull"]
    /\ UNCHANGED <<progvars, dtor, req, alt, ctor, nacquired, handles, fre>>

\* if (TNumOfChunk == header_->offset) isFull.store(1)
AllocTestFull ==
    /\ own.pc = "testFull"
    /\ \E off \in OffsetSeen :
          alloc' = [alloc EXCEPT
                       !.blocks[Cur][OffIsFull] = IF NumOfChunk = off THEN 1 ELSE @]
    /\ own' = [own EXCEPT !.pc = "count"]
    /\ UNCHANGED <<progvars, dtor, req, alt, ctor, nacquired, handles, fre>>

\* MemoryBlock::acquire, the request does not fit: isFull.store(1); return nullptr
AllocSeal ==
    /\ own.pc = "seal"
    /\ alloc' = [alloc EXCEPT !.blocks[Cur][OffIsFull] = 1]
    /\ own' = [own EXCEPT !.pc = "failed"]
    /\ UNCHANGED <<progvars, dtor, req, alt, ctor, nacquired, handles, fre>>

\* MemoryBlock::acquire: numOfAcquired.fetch_add(1); then tryAcquire writes
\* the UniqueRawDataHeader and returns the pointer behind it
AllocCount ==
    /\ own.pc = "count"
    /\ alloc' = [alloc EXCEPT !.blocks[Cur][OffNumOfAcquired] = FetchAdd(@)]
    /\ handles' = handles \cup
          {[id |-> nacquired + 1,
            ptr |-> own.ptr + SizeofUniqueRawDataHeader,
            offset |-> SizeofMemoryBlockHeader + own.last * ChunkSize,
            block |-> Cur,
            chunks |-> own.num]}
    /\ nacquired' = nacquired + 1
    /\ own' = OwnerIdle
    /\ UNCHANGED <<progvars, dtor, req, alt, ctor, fre>>

\* MemoryBlock::acquire returned nullptr: tryAcquire moves to the next block
\* once, then returns nullptr; acquire then asks for a new block (granted or
\* not) and calls tryAcquire again
AllocFailed ==
    /\ own.pc = "failed"
    /\ IF own.first
       THEN /\ alloc' = ListUpdateCurrent(alloc)
            /\ own' = [own EXCEPT !.first = FALSE, !.pc = "readOffset"]
       ELSE IF own.op = "acquire" /\ ~own.grew
       THEN \E granted \in {g \in BOOLEAN : g => Len(alloc.blocks) < MaxMemoryBlocks} :
               IF granted
               THEN /\ \E pad \in PadValues :
                         alloc' = AllocEmplaceAndUpdateCurrent(alloc, MemoryBlockCtor(pad))
                    /\ own' = [own EXCEPT !.grew = TRUE, !.first = TRUE, !.pc = "readOffset"]
               ELSE /\ own' = OwnerIdle
                    /\ UNCHANGED alloc
       ELSE /\ own' = OwnerIdle
            /\ UNCHANGED alloc
    /\ UNCHANGED <<progvars, dtor, req, alt, ctor, nacquired, handles, fre>>

\* allocationDataFree(ptr) on a pointer tryAcquire / acquire returned: the
\* header address is ptr - uniqueRawDataHeader->offset.  With an address that is
\* no header the model can follow, the thread is not followed further.
FreeCall(f) ==
    /\ fre[f].pc = "idle"
    /\ \E h \in handles :
         /\ handles' = handles \ {h}
         /\ fre' = [fre EXCEPT ![f] =
                       IF Located(h.ptr - h.offset) # {}
                       THEN [pc |-> "sub", hdr |-> h.ptr - h.offset]
                       ELSE FreeIdle]
    /\ UNCHANGED <<progvars, dtor, req, alt, ctor, alloc, own, nacquired>>

\* MemoryBlockHeader::release: numOfAcquired.fetch_sub(1)
RelSub(f) ==
    /\ fre[f].pc = "sub"
    /\ LET m == MemberAt(f, OffNumOfAcquired)
       IN  alloc' = [alloc EXCEPT !.blocks[m[1]][m[2]] = FetchSub(@)]
    /\ fre' = [fre EXCEPT ![f].pc = "load"]
    /\ UNCHANGED <<progvars, dtor, req, alt, ctor, own, nacquired, handles>>

\* if (numOfAcquired.load() != 0) return
RelLoad(f) ==
    /\ fre[f].pc = "load"
    /\ LET m == MemberAt(f, OffNumOfAcquired)
       IN  fre' = [fre EXCEPT ![f] =
                      IF alloc.blocks[m[1]][m[2]] # 0 THEN FreeIdle
                      ELSE [@ EXCEPT !.pc = "zeroOffset"]]
    /\ UNCHANGED <<progvars, dtor, req, alt, ctor, alloc, own, nacquired, handles>>

\* offset = 0
RelZeroOffset(f) ==
    /\ fre[f].pc = "zeroOffset"
    /\ LET m == MemberAt(f, OffOffset)
       IN  alloc' = [alloc EXCEPT !.blocks[m[1]][m[2]] = 0]
    /\ fre' = [fre EXCEPT ![f].pc = "zeroFull"]
    /\ UNCHANGED <<progvars, dtor, req, alt, ctor, own, nacquired, handles>>

\* isFull.store(0)
RelZeroFull(f) ==
    /\ fre[f].pc = "zeroFull"
    /\ LET m == MemberAt(f, OffIsFull)
       IN  alloc' = [alloc EXCEPT !.blocks[m[1]][m[2]] = 0]
    /\ fre' = [fre EXCEPT ![f] = FreeIdle]
    /\ UNCHANGED <<progvars, dtor, req, alt, ctor, own, nacquired, handles>>

\* ------------------------------------- construction of a pool, step by step
\* UniqueDataPool(poolSize, dataBlockSize, success) and
\* AllocatorBase(numOfMemoryBlocks, success) are the same loop over
\* List::emplaceFront; here the system may refuse the list node or the block's
\* memory.  The values of poolSize / numOfMemoryBlocks that are constructed:
MaxPoolSize == 3
PoolSizes == 1 .. MaxPoolSize
PoolKinds == {"UniqueDataPool", "AllocatorBase"}

\* before the constructor runs: success is the caller's variable and holds
\* what the caller left in it; allocSuccess = false
CtorEntry(kind, poolSize, success) ==
    [pc |-> "emplace", kind |-> kind, poolSize |-> poolSize, i |-> 0,
     list |-> << >>, current |-> 0, size |-> 0,
     nodes |-> {}, bufs |-> {}, made |-> 0,
     emplaced |-> FALSE, allocSuccess |-> FALSE, success |-> success,
     failed |-> FALSE]

\* no constructor runs
CtorIdle == [CtorEntry("none", 0, FALSE) EXCEPT !.pc = "idle"]

\* dataList_.emplaceFront(dataBlockSize, allocSuccess) in the loop: new
\* (nothrow) Node fails and nothing else happens, or the node is allocated,
\* Data::Data (MemoryBlock::MemoryBlock) mallocs the block (bufOk) and reports
\* it in allocSuccess, and the node is linked in front.  made numbers the
\* nodes; nodes and bufs are the nodes and the blocks' memory that are
\* allocated and not freed: history of the system allocator.
CtorEmplaceFront ==
    /\ ctor.pc = "emplace"
    /\ ctor.i < ctor.poolSize
    /\ \E nodeOk, bufOk \in BOOLEAN :
         ctor' =
            IF ~nodeOk
            THEN [ctor EXCEPT !.pc = "test", !.emplaced = FALSE, !.failed = TRUE]
            ELSE [ctor EXCEPT
                    !.pc = "test",
                    !.made = @ + 1,
                    !.nodes = @ \cup {ctor.made + 1},
                    !.bufs = IF bufOk THEN @ \cup {ctor.made + 1} ELSE @,
                    !.allocSuccess = bufOk,
                    !.list = <<ctor.made + 1>> \o @,
                    !.current = IF ctor.current = 0 THEN 1 ELSE @ + 1,
                    !.size = @ + 1,
                    !.emplaced = TRUE,
                    !.failed = @ \/ ~bufOk]
    /\ UNCHANGED <<progvars, dtor, req, alt, alloc, own, nacquired, handles, fre>>

\* the test of the loop when only the result of emplaceFront is looked at
CtorTest_NodeOnly ==
    /\ ctor.pc = "test"
    /\ ctor' = IF ~ctor.emplaced
               THEN [ctor EXCEPT !.pc = "clear"]
               ELSE [ctor EXCEPT !.pc = "emplace", !.i = @ + 1]
    /\ UNCHANGED <<progvars, dtor, req, alt, alloc, own, nacquired, handles, fre>>

\* if (!emplaceFront(...) or !allocSuccess): to the clearing of the list, else i++
CtorTest ==
    /\ ctor.pc = "test"
    /\ ctor' = IF ~ctor.emplaced \/ ~ctor.allocSuccess
               THEN [ctor EXCEPT !.pc = "clear"]
               ELSE [ctor EXCEPT !.pc = "emplace", !.i = @ + 1]
    /\ UNCHANGED <<progvars, dtor, req, alt, alloc, own, nacquired, handles, fre>>

\* List::clear, one pass of its loop: popFront deletes the head node, whose
\* destructor frees the block's memory (free(nullptr) when there is none)
CtorPopFront ==
    /\ ctor.pc = "clear"
    /\ ctor.size # 0
    /\ ctor.list # << >>
    /\ ctor' = [ctor EXCEPT
                  !.list = Tail(@),
                  !.size = @ - 1,
                  !.nodes = @ \ {Head(ctor.list)},
                  !.bufs = @ \ {Head(ctor.list)}]
    /\ UNCHANGED <<progvars, dtor, req, alt, alloc, own, nacquired, handles, fre>>

\* List::clear, after its loop: size_ = 0, current_ = nullptr; then
\* success = false; return
CtorCleared ==
    /\ ctor.pc = "clear"
    /\ ctor.size = 0
    /\ ctor' = [ctor EXCEPT !.size = 0, !.current = 0, !.success = FALSE, !.pc = "done"]
    /\ UNCHANGED <<progvars, dtor, req, alt, alloc, own, nacquired, handles, fre>>

\* the loop is over: success = true
CtorSucceed ==
    /\ ctor.pc = "emplace"
    /\ ctor.i >= ctor.poolSize
    /\ ctor' = [ctor EXCEPT !.success = TRUE, !.pc = "done"]
    /\ UNCHANGED <<progvars, dtor, req, alt, alloc, own, nacquired, handles, fre>>

\* ------------------------- the Queue with the embedded dummy (part_001)
\* Queue::Queue(): the dummy is a member, constructed by UniqueData(nullptr_t)
\* with State::Utilized and a null next_; head_ and tail_ designate it.  The
\* fields call and ret are the call last made on this queue and its result.
AltQueueCtor ==
    [state |-> [a \in Addrs |-> IF a = Dummy THEN "Utilized" ELSE "Recorded"],
     next |-> [a \in Addrs |-> NULL],
     head_ |-> Dummy, tail_ |-> Dummy, call |-> "none", ret |-> NONE]

\* Queue::push(uniqueData), run alone from entry to return: the loop links
\* the handle behind a tail whose next_ is null, and moves tail_ along first
\* when it is not
RECURSIVE AltPushRun(_, _)
AltPushRun(q, a) ==
    IF q.next[q.tail_] = NULL
    THEN [q EXCEPT !.next[q.tail_] = a, !.tail_ = a]
    ELSE AltPushRun([q EXCEPT !.tail_ = q.next[q.tail_]], a)

\* pop with the test of next_ before the test of state_
RECURSIVE AltPopRun_NextFirst(_)
AltPopRun_NextFirst(q) ==
    IF q.next[q.head_] = NULL THEN [q EXCEPT !.ret = NULL]
    ELSE IF q.state[q.head_] = "Recorded"
    THEN [q EXCEPT !.state[q.head_] = "Utilized", !.ret = q.head_]
    ELSE AltPopRun_NextFirst([q EXCEPT !.head_ = q.next[q.head_]])

\* Queue::pop(), run alone from entry to return: a Recorded head is
\* delivered, a Utilized one is passed when it has a successor
RECURSIVE AltPopRun(_)
AltPopRun(q) ==
    IF q.state[q.head_] = "Recorded"
    THEN [q EXCEPT !.state[q.head_] = "Utilized", !.ret = q.head_]
    ELSE IF q.next[q.head_] = NULL THEN [q EXCEPT !.ret = NULL]
    ELSE AltPopRun([q EXCEPT !.head_ = q.next[q.head_]])

\* The handle the producer is about to push is pushed on this queue too (a
\* copy of it at the same address, fresh from its constructor).
AltPush ==
    /\ alt.call = "none"
    /\ cpc = "idle"
    /\ ppc[PoolOwner] = "have"
    /\ alt' = [AltPushRun([alt EXCEPT !.state[pud[PoolOwner]] = "Recorded",
                                      !.next[pud[PoolOwner]] = NULL], pud[PoolOwner])
                   EXCEPT !.call = "push", !.ret = NONE]
    /\ UNCHANGED <<progvars, alloc, own, nacquired, handles, fre, ctor, dtor, req>>

\* pop is called on this queue; the consumer forgets the result of the pop
\* before
AltPop ==
    /\ alt.call = "none"
    /\ cpc = "idle"
    /\ ~PushInProgress
    /\ alt' = [AltPopRun(alt) EXCEPT !.call = "pop"]
    /\ cret' = NONE
    /\ cread' = << >>
    /\ UNCHANGED <<memvars, qvars, pvars, cpc, chead, ctail, ctailNext, cfirstTry, hvars>>
    /\ UNCHANGED <<alloc, own, nacquired, handles, fre, ctor, dtor, req>>

\* the same call has returned on the queue with the heap dummy
AltCallDone ==
    /\ cpc = "idle"
    /\ \/ alt.call = "push" /\ ppc[PoolOwner] = "idle"
       \/ alt.call = "pop" /\ cret # NONE
    /\ alt' = [alt EXCEPT !.call = "none"]
    /\ UNCHANGED <<progvars, alloc, own, nacquired, handles, fre, ctor, dtor, req>>

\* ------------------------------------------- the chunk count of a request
\* the largest size passed to tryAcquire in the runs that compute chunk counts
MaxTypeSize == 136

ReqIdle == [pc |-> "idle", kind |-> "none", size |-> 0, chunks |-> 0]

\* UniqueDataPool::tryAcquire<TypeSize>(): the constexpr blockCount
PoolBlockCount ==
    /\ req.pc = "call"
    /\ req.kind = "UniqueDataPool"
    /\ req' = [req EXCEPT !.chunks = BlockCountFor(req.size), !.pc = "done"]
    /\ UNCHANGED <<progvars, alloc, own, nacquired, handles, fre, ctor, dtor, alt>>

\* AllocatorBase::tryAcquire(size): numOfChunk
AllocNumOfChunk ==
    /\ req.pc = "call"
    /\ req.kind = "AllocatorBase"
    /\ req' = [req EXCEPT !.chunks = NumOfChunkFor(req.size), !.pc = "done"]
    /\ UNCHANGED <<progvars, alloc, own, nacquired, handles, fre, ctor, dtor, alt>>

\* no AllocatorBase is constructed and no constructor runs step by step
AllocNotBuilt ==
    /\ alloc = AllocEmpty
    /\ own = OwnerIdle
    /\ nacquired = 0
    /\ handles = {}
    /\ fre = [f \in FreeThreads |-> FreeIdle]
    /\ ctor = CtorIdle
    /\ dtor = "alive"
    /\ req = ReqIdle
    /\ alt = AltQueueCtor

\* ------------------------------------------------- the queue on its own
\* Producers make heap handles and push them, one consumer pops; every handle
\* stays allocated (the consumer keeps what it popped).
InitThreads ==
    /\ ppc = [p \in Producers |-> "idle"]
    /\ pud = [p \in Producers |-> NULL]
    /\ ptail = [p \in Producers |-> NULL]
    /\ pnext = [p \in Producers |-> NULL]
    /\ pret = <<0, NULL, "none">>
    /\ pfails = [p \in Producers |-> 0]
    /\ pcontend = [p \in Producers |-> {}]
    /\ cpc = "idle"
    /\ chead = NULL
    /\ ctail = NULL
    /\ ctailNext = NULL
    /\ cfirstTry = TRUE
    /\ cret = NONE
    /\ cread = << >>
    /\ pcalls = [p \in Producers |-> << >>]
    /\ pushDone = {}
    /\ popSeq = << >>
    /\ cdoneAtCall = {}
    /\ pushedBytes = [a \in Addrs |-> << >>]
    /\ released = {}
    /\ made = [a \in Addrs |-> <<0, 0>>]
    /\ liveAt = [a \in Addrs |-> 0]
    /\ linkSeq = << >>

InitMemory(dataBlockSize) ==
    /\ pool = UniqueDataPoolCtor(dataBlockSize)
    /\ hchunks = [a \in Addrs |-> 0]

InitQueue == QueueCtor /\ InitMemory(DataBlockSize) /\ InitThreads /\ AllocNotBuilt

PushStep(p) ==
    \/ PushLoadTail(p)
    \/ PushLoadNext(p)
    \/ PushCasNext(p)
    \/ PushCasTail(p)
    \/ PushFetchAdd(p)
    \/ PushHelpTail(p)

PopStep ==
    \/ PopCall
    \/ PopLoadTail
    \/ PopLoadTailNext
    \/ PopEq
    \/ PopAdvance
    \/ PopDetach

NextQueue ==
    \/ \E p \in Producers : Make(p)
    \/ \E p \in Producers : Emplace(p)
    \/ \E p \in Producers : PushCall(p)
    \/ \E p \in Producers : PushStep(p)
    \/ \E p \in Producers : PushCasNextSpurious(p)
    \/ PopStep

SpecQueue == InitQueue /\ [][NextQueue]_vars

\* ---------------------------------------------------- the whole program
\* The pool owner acquires handles from its pool or from the heap, writes the
\* payload and pushes; the consumer pops, reads the payload and releases.
\* One producer runs here (a pool serves one thread); SpecQueue has two.
Init == QueueCtor /\ (\E d \in DataBlockSizes : InitMemory(d)) /\ InitThreads /\ AllocNotBuilt

Next ==
    \/ PoolTryAcquire(PoolOwner)
    \/ PoolAcquire(PoolOwner)
    \/ Make(PoolOwner)
    \/ Emplace(PoolOwner)
    \/ PushCall(PoolOwner)
    \/ PushStep(PoolOwner)
    \/ PushCasNextSpurious(PoolOwner)
    \/ PopStep
    \/ ReadPayload
    \/ Release

Spec == Init /\ [][Next]_vars

\* The whole program with a consumer that, besides, destroys handles it has released.
NextRelease == Next \/ ReleaseAndDestroy

SpecRelease == Init /\ [][NextRelease]_vars

\* The whole program with a pool owner that, besides, acquires large handles.
NextLarge == Next \/ PoolAcquireLarge(PoolOwner)

SpecLarge == Init /\ [][NextLarge]_vars

\* The whole program until the queue is destroyed: ~Queue may be called whenever
\* no push and no pop runs, and nothing else runs during it or after it.
NextDtor ==
    \/ dtor = "alive" /\ Next
    \/ DtorCall
    \/ DtorPop
    \/ DtorPopStep
    \/ DtorRelease
    \/ DtorFree

SpecDtor == Init /\ [][NextDtor]_vars

\* The whole program with a pool constructed with dataBlockSize = 0, whose
\* owner acquires handles of the smallest size.  No address is handed out
\* twice here, so the one producer always finds tail->next_ null and never
\* takes the branch of push that helps tail_ along.
InitZero == QueueCtor /\ InitMemory(0) /\ InitThreads /\ AllocNotBuilt

NextZero ==
    \/ PoolAcquireSmall(PoolOwner)
    \/ Emplace(PoolOwner)
    \/ PushCall(PoolOwner)
    \/ PushLoadTail(PoolOwner)
    \/ PushLoadNext(PoolOwner)
    \/ PushCasNext(PoolOwner)
    \/ PushCasTail(PoolOwner)
    \/ PushFetchAdd(PoolOwner)
    \/ PopStep
    \/ ReadPayload
    \/ Release

SpecZero == InitZero /\ [][NextZero]_vars

\* The computation of the chunk count on its own, for every size up to MaxTypeSize.
InitSizes ==
    /\ QueueCtor /\ InitMemory(DataBlockSize) /\ InitThreads
    /\ alloc = AllocEmpty
    /\ own = OwnerIdle
    /\ nacquired = 0
    /\ handles = {}
    /\ fre = [f \in FreeThreads |-> FreeIdle]
    /\ ctor = CtorIdle
    /\ dtor = "alive"
    /\ \E kind \in PoolKinds, size \in 0 .. MaxTypeSize :
          req = [pc |-> "call", kind |-> kind, size |-> size, chunks |-> 0]
    /\ alt = AltQueueCtor

NextSizes == PoolBlockCount \/ AllocNumOfChunk

SpecSizes == InitSizes /\ [][NextSizes]_vars

\* The two queues side by side, one thread, every call complete before the
\* next: each push and each pop is made on the queue with the embedded dummy
\* (in one step) and on the queue with the heap dummy (step by step).  No
\* handle is released, and the one thread never finds tail_ behind.
InitPair == InitQueue

NextPair ==
    \/ alt.call = "none" /\ cpc = "idle" /\ Make(PoolOwner)
    \/ alt.call = "none" /\ Emplace(PoolOwner)
    \/ AltPush
    \/ alt.call = "push" /\ PushCall(PoolOwner)
    \/ PushLoadTail(PoolOwner)
    \/ PushLoadNext(PoolOwner)
    \/ PushCasNext(PoolOwner)
    \/ PushCasNextSpurious(PoolOwner)
    \/ PushCasTail(PoolOwner)
    \/ PushFetchAdd(PoolOwner)
    \/ AltPop
    \/ alt.call = "pop" /\ cret = NONE /\ PopCall
    \/ PopLoadTail
    \/ PopLoadTailNext
    \/ PopEq
    \/ PopAdvance
    \/ PopDetach
    \/ AltCallDone

SpecPair == InitPair /\ [][NextPair]_vars

\* The allocator of details.hpp on its own: the pool-owner thread calls
\* tryAcquire and acquire, other threads pass the pointers to allocationDataFree.
InitAlloc ==
    /\ QueueCtor /\ InitMemory(DataBlockSize) /\ InitThreads
    /\ \E pads \in [1 .. NumOfMemoryBlocks -> PadValues] : alloc = AllocatorBaseCtor(pads)
    /\ own = OwnerIdle
    /\ nacquired = 0
    /\ handles = {}
    /\ fre = [f \in FreeThreads |-> FreeIdle]
    /\ ctor = CtorIdle
    /\ dtor = "alive"
    /\ req = ReqIdle
    /\ alt = AltQueueCtor

AllocStep ==
    \/ AllocReadOffset
    \/ AllocCheckFull
    \/ AllocCarve
    \/ AllocPtr
    \/ AllocBump
    \/ AllocTestFull
    \/ AllocSeal
    \/ AllocCount
    \/ AllocFailed

ReleaseStepOf(f) ==
    \/ RelSub(f)
    \/ RelLoad(f)
    \/ RelZeroOffset(f)
    \/ RelZeroFull(f)

NextAlloc ==
    \/ TryAcquireCall
    \/ AcquireCall
    \/ AllocStep
    \/ \E f \in FreeThreads : FreeCall(f)
    \/ \E f \in FreeThreads : ReleaseStepOf(f)

SpecAlloc == InitAlloc /\ [][NextAlloc]_vars

\* The constructor of a pool on its own, with a system allocator that may
\* refuse any allocation.
InitCtor ==
    /\ QueueCtor /\ InitMemory(DataBlockSize) /\ InitThreads
    /\ alloc = AllocEmpty
    /\ own = OwnerIdle
    /\ nacquired = 0
    /\ handles = {}
    /\ fre = [f \in FreeThreads |-> FreeIdle]
    /\ \E kind \in PoolKinds, poolSize \in PoolSizes, success \in BOOLEAN :
          ctor = CtorEntry(kind, poolSize, success)
    /\ dtor = "alive"
    /\ req = ReqIdle
    /\ alt = AltQueueCtor

NextCtor ==
    \/ CtorEmplaceFront
    \/ CtorTest
    \/ CtorPopFront
    \/ CtorCleared
    \/ CtorSucceed

SpecCtor == InitCtor /\ [][NextCtor]_vars

\* The queue on its own, with the scheduling the claims about progress assume: every
\* thread that can take a step eventually takes one, the consumer keeps
\* calling pop, and a compare_exchange_weak does not fail spuriously for ever.
SpecQueueFair ==
    /\ SpecQueue
    /\ WF_vars(PopStep)
    /\ \A p \in Producers : WF_vars(PushStep(p)) /\ SF_vars(PushCasNext(p))

\* The whole program under the same scheduling.
SpecFair ==
    /\ Spec
    /\ WF_vars(PopStep)
    /\ WF_vars(PushStep(PoolOwner)) /\ SF_vars(PushCasNext(PoolOwner))

\* ------------------------------------------------------------ properties
\* a handle is named <<p, n>>: the n-th handle producer p made and passed to push
Handles == Producers \X (1 .. MaxPush)
PushStarted == {id \in Handles : id[2] <= Len(pcalls[id[1]])}
Popped == Range(popSeq)
PushRunning(p) == ppc[p] \notin {"idle", "made", "have"}

\* the chain of next_ from a ends at a null next_ within k nodes
RECURSIVE ChainEnds(_, _)
ChainEnds(a, k) ==
    IF a = NULL THEN TRUE
    ELSE IF k = 0 THEN FALSE
    ELSE ChainEnds(mem[a].next, k - 1)

\* the nodes the queue designates: head_, tail_ and every node reached from
\* head_ along next_ (k bounds the walk)
RECURSIVE ChainNodes(_, _)
ChainNodes(a, k) ==
    IF a = NULL \/ k = 0 THEN {}
    ELSE {a} \cup ChainNodes(mem[a].next, k - 1)

QueueNodes == {head_, tail_} \cup ChainNodes(head_, Cardinality(Addrs))

\* the chunks of a handle of n chunks constructed at a
ChunksOf(a, n) == {b \in Addrs : a <= b /\ b < a + n}

\* a step in which pop returns nullptr
PopReturnsNull == cpc # "idle" /\ cpc' = "idle" /\ cret' = NULL

\* every handle passed to push has been popped and no push is running
QueueEmpty ==
    /\ PushStarted \subseteq Popped
    /\ \A p \in Producers : ~PushRunning(p)

\* C1: every non-null result of pop is a handle that was passed to push
\* before, and pop returns no handle twice.
C1_ExactlyOnce ==
    /\ \A i \in DOMAIN popSeq : popSeq[i] \in PushStarted
    /\ \A i, j \in DOMAIN popSeq : i # j => popSeq[i] # popSeq[j]

\* C2: when one producer pushed a and later b, pop returns b only after a.
C2_PerProducerFifo ==
    \A p \in Producers : \A i, j \in DOMAIN pcalls[p] :
        (i < j /\ <<p, j>> \in Popped) =>
            /\ <<p, i>> \in Popped
            /\ PosOf(popSeq, <<p, i>>) < PosOf(popSeq, <<p, j>>)

\* a thread has dereferenced nullptr: the program has ended
NullDeref ==
    \/ cpc = "loadTailNext" /\ ~Valid(ctail)
    \/ cpc \in {"branch", "detach"} /\ ~Valid(chead)
    \/ \E p \in Producers : ppc[p] \in {"loadNext", "casNext"} /\ ~Valid(ptail[p])

C4_PayloadIntegrity ==
    cread # << >> => cread = pushedBytes[cret]

\* C5: when the pool hands out chunks for a new handle, no chunk among them
\* holds a node the queue designates (head_, tail_, or reached from head_).
C5_NoRecyclingUnderQueue ==
    [][\A p \in Producers :
          (ppc[p] = "idle" /\ ppc'[p] = "made" /\ pud'[p] \in PoolAddrs) =>
              ChunksOf(pud'[p], hchunks'[pud'[p]]) \cap QueueNodes = {}]_vars

\* C6: once pop has returned a handle and the consumer has released it,
\* neither head_ nor tail_ designates it.
C6_OwnershipTransfer ==
    \A h \in released : head_ # h /\ tail_ # h

\* C7: head_ and tail_ are never null and the chain of next_ from head_ is
\* acyclic: it reaches a null next_ within as many nodes as there are.
C7_NoTornQueue ==
    /\ head_ # NULL
    /\ tail_ # NULL
    /\ ChainEnds(head_, Cardinality(Addrs))

C9_PopOnEmpty ==
    [][(QueueEmpty /\ cpc' # cpc) =>
          /\ UNCHANGED <<head_, tail_, numOfInQueue_>>
          /\ \A a \in Addrs : mem'[a].state = mem[a].state
          /\ cpc' = "idle" => cret' = NULL]_vars

\* C10: a push that returns false was passed nullptr and changed neither
\* head_, tail_, numOfInQueue_ nor any handle; so push(nullptr) has no effect
\* and a push of a handle does not return false.
C10_PushNull ==
    [][(pret' # pret /\ pret'[3] = "false") =>
          /\ pret'[2] = NULL
          /\ UNCHANGED <<mem, head_, tail_, numOfInQueue_>>]_vars

\* push(nullptr) has returned false on a queue that holds handles, while a
\* push of a handle is under way
C10_Witness ==
    /\ pret[3] = "false"
    /\ head_ # tail_
    /\ pushDone # {}
    /\ \E p \in Producers : PushRunning(p)

\* no push and no pop is in progress
Quiescent == cpc = "idle" /\ \A p \in Producers : ~PushRunning(p)

\* C11: whenever no push and no pop is in progress, numOfInQueue_ equals the
\* number of handles whose push has returned true and that pop has not
\* returned yet.
C11_QueueSize ==
    Quiescent => numOfInQueue_ = Cardinality(pushDone \ Popped)

\* a step in which the push call of producer p returns true
PushReturnsTrue(p) == ppc[p] = "fetchAdd" /\ ppc'[p] = "idle"

\* C12: a push call of a handle returns true after at most 2 failed passes
\* of its loop for each push call of another producer that ran during it.
C12_BoundedRetries ==
    [][\A p \in Producers :
          PushReturnsTrue(p) => pfails[p] <= 2 * Cardinality(pcontend[p])]_vars

\* the block a pool chunk lies in
BlockOfChunk(a) == CHOOSE b \in BlockIds : Base(b) <= a /\ a < Base(b) + MaxDataBlockSize

\* the pool handles that were acquired and on which release() was not called
LivePool == {a \in PoolAddrs : hchunks[a] > 0 /\ a \notin released}
LiveChunks == UNION {ChunksOf(a, hchunks[a]) : a \in LivePool}

\* every block of the pool is filled so that blockCount chunks no longer fit
\* behind its offset, and holds a handle that is not released
PoolFullUndrained(blockCount) ==
    \A b \in DOMAIN pool.blocks :
        /\ blockCount > pool.blocks[b].blockCount - pool.blocks[b].offset
        /\ \E a \in LivePool : BlockOfChunk(a) = b

\* a step in which the pool hands a handle to producer p out of the blocks it has
PoolHandsOut(p) ==
    /\ ppc[p] = "idle" /\ ppc'[p] = "made" /\ pud'[p] \in PoolAddrs
    /\ Len(pool'.blocks) = Len(pool.blocks)

\* C13: when every block is filled so that the request no longer fits and
\* holds a handle that is not released, the pool hands out nothing (tryAcquire
\* returns nullptr), so no chunk of an unreleased handle is handed out again.
C13_NoAllocWhenFull ==
    [][\A p \in Producers :
          PoolHandsOut(p) => ~PoolFullUndrained(hchunks'[pud'[p]])]_vars

\* every handle carved from block b has been released
Drained(b) == ~\E a \in LivePool : BlockOfChunk(a) = b

\* C14: a block that has refused an allocation because it was full, and whose
\* handles have all been released since, serves the next allocation attempt
\* that reaches it, of every request size, from its chunk 0.
C14_ReuseFromChunk0 ==
    \A b \in DOMAIN pool.blocks :
        (pool.blocks[b].refused /\ Drained(b)) =>
            \A ts \in TypeSizes :
                DataAcquire(pool.blocks[b], BlockCountFor(ts)).chunk = 0

\* the sum of f over the set S of addresses
RECURSIVE SumOver(_, _)
SumOver(f, S) ==
    IF S = {} THEN 0
    ELSE LET a == CHOOSE x \in S : TRUE IN f[a] + SumOver(f, S \ {a})

\* the handles carved from block b on which release() was not called
LiveInBlock(b) == SumOver(liveAt, ChunksOf(Base(b), MaxDataBlockSize))

ReleaseStep ==
    cpc = "idle" /\ cpc' = "idle" /\ cret \notin {NONE, NULL} /\ cret' = NONE

\* C18: release() on a handle that is already released, and the destructor
\* after release(), change nothing: however the consumer gives a handle up,
\* memory, the heap and every block's numOfAcquired are left as one call of
\* release() leaves them.
C18_IdempotentRelease ==
    [][ReleaseStep =>
          \E o \in ReleaseOutcomes(mem, heapLive, pool, cret) :
              mem' = o.mem /\ heapLive' = o.heapLive /\ pool' = o.pool]_vars

\* a step in which the system grants the pool a new block (acquire only)
BlockGranted == Len(pool'.blocks) > Len(pool.blocks)

\* C20: acquire returns nullptr only when the allocation of a new block
\* fails: a call in which the system grants the block returns a handle.
C20_AcquireFailsOnlyOnExhaustion ==
    [][BlockGranted =>
          \E p \in Producers :
              ppc[p] = "idle" /\ ppc'[p] = "made" /\ pud'[p] \in PoolAddrs]_vars

\* the addresses of the chunks of the pointer record h
HandleChunks(h) ==
    {h.ptr - SizeofUniqueRawDataHeader + i * ChunkSize : i \in 0 .. h.chunks - 1}

\* C15: every step that lowers the offset of a MemoryBlock starts from a
\* state in which the block's isFull is 1 and its numOfAcquired is 0.
C15_ResetOnlyWhenSealedDrained ==
    [][\A b \in DOMAIN alloc.blocks :
          alloc'.blocks[b][OffOffset] < alloc.blocks[b][OffOffset] =>
              /\ alloc.blocks[b][OffIsFull] = 1
              /\ alloc.blocks[b][OffNumOfAcquired] = 0]_vars

\* C16: the chunks of any two pointers that tryAcquire / acquire returned and
\* that were not yet passed to allocationDataFree are disjoint.
C16_NoOverlap ==
    \A h1, h2 \in handles :
        h1.id # h2.id => HandleChunks(h1) \cap HandleChunks(h2) = {}

\* C19: for every pointer tryAcquire / acquire returned, the header address
\* allocationDataFree computes, ptr - uniqueRawDataHeader->offset, is the
\* address of the header of the block the pointer was carved from.
C19_ReleaseReachesSource ==
    \A h \in handles : h.ptr - h.offset = ABase(h.block)

\* block b can serve a request of blockCount chunks: the chunks fit behind its
\* offset, or they fit in the block and every handle carved from it is released
CanServe(b, blockCount) ==
    \/ blockCount <= pool.blocks[b].blockCount - pool.blocks[b].offset
    \/ blockCount <= pool.blocks[b].blockCount /\ Drained(b)

\* C21: in every state in which tryAcquire<TypeSize>() returns nullptr, no
\* block of the pool can serve the request.
C21_NullOnlyWhenFull ==
    \A ts \in TypeSizes :
        TryAcquire(pool, BlockCountFor(ts)).ptr = NULL =>
            \A b \in DOMAIN pool.blocks : ~CanServe(b, BlockCountFor(ts))

\* the blocks of the pool pl other than the one the result r of tryAcquire
\* was carved from (all of them when r is nullptr)
NotAllocatedFrom(pl, r) ==
    {b \in DOMAIN pl.blocks : r.ptr = NULL \/ BlockOfChunk(r.ptr) # b}

\* C22: in every state, for every request size, tryAcquire<TypeSize>()
\* leaves the number of blocks as it is and leaves the offset and the
\* numOfAcquired of every block it does not allocate from as they are.
C22_TryAcquireFrame ==
    \A ts \in TypeSizes :
        LET r == TryAcquire(pool, BlockCountFor(ts))
        IN  /\ Len(r.pool.blocks) = Len(pool.blocks)
            /\ \A b \in NotAllocatedFrom(pool, r) :
                  /\ r.pool.blocks[b].offset = pool.blocks[b].offset
                  /\ r.pool.blocks[b].numOfAcquired = pool.blocks[b].numOfAcquired

\* C23: when the constructor of a pool of B0 blocks has returned: if an
\* allocation failed, success is false, the pool holds no block and every
\* node and block allocated on the way is freed; if none failed, success is
\* true and size() is B0.
C23_CtorFailure ==
    ctor.pc = "done" =>
        IF ctor.failed
        THEN /\ ctor.success = FALSE
             /\ ctor.size = 0
             /\ ctor.list = << >>
             /\ ctor.nodes = {}
             /\ ctor.bufs = {}
        ELSE /\ ctor.success = TRUE
             /\ ctor.size = ctor.poolSize
             /\ Len(ctor.list) = ctor.poolSize

\* the constructor has returned after two blocks were allocated and the
\* third allocation was refused
C23_Witness ==
    /\ ctor.pc = "done"
    /\ ctor.failed
    /\ ctor.i = 2
    /\ ctor.made = 3
    /\ ctor.success = FALSE

\* s holds no handle twice
NoRepeat(s) == \A i, j \in DOMAIN s : i # j => s[i] # s[j]

\* C24: pop returns handles in the order in which the compare-exchange of
\* their push on next_ succeeded: every handle pop returned was linked, none
\* is returned twice, and of two handles pop returned, the one linked first
\* was returned first.
C24_LinkOrderFifo ==
    /\ Range(popSeq) \subseteq Range(linkSeq)
    /\ NoRepeat(popSeq)
    /\ \A i, j \in DOMAIN popSeq :
          i < j => \E k, l \in DOMAIN linkSeq :
                      k < l /\ linkSeq[k] = popSeq[i] /\ linkSeq[l] = popSeq[j]

\* C25: the node tail_ designates is reached from head_ along next_ (in zero
\* or more steps), and when pop has found head != tail, the next_ of that
\* head is not null.
C25_HeadNeverOvertakesTail ==
    /\ tail_ \in ChainNodes(head_, Cardinality(Addrs))
    /\ (cpc = "branch" /\ Valid(chead) /\ chead # ctail) => mem[chead].next # NULL

\* tail_ designates the last node of the chain or the node before the last
TailNearEnd ==
    /\ tail_ # NULL
    /\ \/ mem[tail_].next = NULL
       \/ mem[mem[tail_].next].next = NULL

\* C26: in every state tail_ designates the last node of the chain (its next_
\* is null) or the node immediately before it, and every step in which a
\* push links its node starts from a state in which tail_ designates the last.
C26_TailLag ==
    /\ []TailNearEnd
    /\ [][linkSeq' # linkSeq => mem[tail_].next = NULL]_vars

\* a step of a push call: its entry, a step of its loop, or its return
PushStepTaken ==
    \/ \E p \in Producers : ppc'[p] # ppc[p] /\ (PushRunning(p) \/ PushRunning(p)')
    \/ pret' # pret

\* C27: no step of push changes head_ or the state_ of a handle; of memory a
\* step of push changes only the next_ of the node its compare-exchange links
\* behind, which becomes the handle pushed.
C27_PushFrame ==
    [][PushStepTaken =>
          /\ head_' = head_
          /\ \A a \in Addrs :
                /\ mem'[a].state = mem[a].state
                /\ mem'[a] = [mem[a] EXCEPT !.next = mem'[a].next]
                /\ mem'[a].next # mem[a].next =>
                      \E p \in Producers :
                          /\ ppc[p] = "casNext"
                          /\ a = ptail[p]
                          /\ mem'[a].next = pud[p]]_vars

\* a push has linked its handle and moved tail_ to it, on a queue whose head_
\* the consumer has moved and from which it has popped
C27_Witness ==
    /\ \E p \in Producers : ppc[p] = "fetchAdd" /\ tail_ = pud[p] /\ mem[head_].next = pud[p]
    /\ head_ # Dummy
    /\ popSeq # << >>

\* the addresses at which a handle was constructed whose release() was not called
HandleAddrs == {a \in Addrs \ {Dummy} : made[a] # <<0, 0>> /\ a \notin released}

\* C28: the dummy is Utilized, and of every other handle the state_ is
\* Recorded exactly when a push has linked it and pop has not returned it,
\* and Utilized exactly when pop has returned it.
C28_StateBit ==
    /\ mem[Dummy].state = "Utilized"
    /\ \A a \in HandleAddrs :
          /\ mem[a].state = "Recorded" <=> (made[a] \in Range(linkSeq) /\ made[a] \notin Popped)
          /\ mem[a].state = "Utilized" <=> made[a] \in Popped

\* C29: pop never returns the dummy handle that the constructor of the queue
\* allocated.
C29_SentinelNeverDelivered ==
    /\ cret # Dummy
    /\ made[Dummy] \notin Popped

\* pop has returned its first handle, the one linked behind the dummy, and
\* head_ has left the dummy
C29_Witness ==
    /\ cret \notin {NONE, NULL}
    /\ Len(popSeq) = 1
    /\ mem[Dummy].next = cret
    /\ head_ # Dummy

\* C30: numOfInQueue_ is never decremented while it is 0, so it never wraps
\* (the value 2^64 - 1 is held as -1), and it never exceeds the number of
\* pushes whose compare-exchange on next_ has succeeded.
C30_NoUnderflow ==
    /\ numOfInQueue_ >= 0
    /\ numOfInQueue_ <= Len(linkSeq)

\* ~Queue dereferences what pop returned, and pop returned nullptr
DtorNullDeref == dtor = "run" /\ cpc = "idle" /\ cret = NULL

\* C31: ~Queue, called while no push and no pop runs, never dereferences a
\* null result of pop, and when it has freed the sentinel every handle that
\* was pushed has been popped (by an earlier pop, or by ~Queue, which releases it).
C31_DtorDrains ==
    /\ ~DtorNullDeref
    /\ dtor = "done" =>
          /\ Range(linkSeq) \subseteq Popped
          /\ Dummy \notin heapLive

\* C32: a step of a thread that is in allocationDataFree /
\* MemoryBlockHeader::release leaves the offset and the isFull of every
\* MemoryBlock as they were (only numOfAcquired is written by a release).
C32_ReleaseFrame ==
    [][(\E f \in FreeThreads : fre[f].pc # "idle" /\ fre'[f] # fre[f]) =>
          \A b \in DOMAIN alloc.blocks :
              /\ alloc'.blocks[b][OffOffset] = alloc.blocks[b][OffOffset]
              /\ alloc'.blocks[b][OffIsFull] = alloc.blocks[b][OffIsFull]]_vars

\* no call of tryAcquire / acquire and no call of allocationDataFree is in progress
AllocQuiet == own.pc = "idle" /\ \A f \in FreeThreads : fre[f].pc = "idle"

\* every pointer carved from block b was passed to allocationDataFree
AllDrained(b) == \A h \in handles : h.block # b

\* MemoryBlock::acquire(c) on block b would return a pointer
CanCarve(b, c) ==
    /\ alloc.blocks[b][OffIsFull] # 1
    /\ c <= NumOfChunk - alloc.blocks[b][OffOffset]

\* C33: whenever no operation is in progress and every pointer carved from a
\* MemoryBlock has been released, an acquire of any request of at most
\* NumOfChunk chunks on that block would succeed.
C33_DrainedBlockServes ==
    AllocQuiet =>
        \A b \in DOMAIN alloc.blocks :
            AllDrained(b) => \A c \in 1 .. NumOfChunk : CanCarve(b, c)

\* C34: MemoryBlock::acquire on a block whose isFull is 1 returns nullptr and
\* writes nothing; acquire sets isFull when the request exceeds the
\* NumOfChunk - offset remaining chunks and when its allocation has brought
\* offset to NumOfChunk, and isFull is set to 1 in no other step.
C34_SealedServesNothing ==
    [][/\ (own.pc = "checkFull" /\ own' # own /\ alloc.blocks[Cur][OffIsFull] = 1) =>
              own'.pc = "failed" /\ alloc' = alloc
       /\ (own.pc = "carve" /\ own' # own) =>
              (own'.pc = "seal" <=> own.num > NumOfChunk - alloc.blocks[Cur][OffOffset])
       /\ (own.pc = "seal" /\ own' # own) => alloc'.blocks[Cur][OffIsFull] = 1
       /\ (own.pc = "testFull" /\ own' # own) =>
              (alloc'.blocks[Cur][OffIsFull] = 1 <=> own.off = NumOfChunk)
       /\ \A b \in DOMAIN alloc.blocks :
              (alloc'.blocks[b][OffIsFull] = 1 /\ alloc.blocks[b][OffIsFull] # 1) =>
                  b = Cur /\ own.pc \in {"seal", "testFull"}]_vars

\* the chunks o .. o + c - 1 lie in a block of n chunks
InBlock(o, c, n) == 0 <= o /\ o + c <= n

MinChunks(bytes, c) ==
    CHOOSE n \in 1 .. bytes : n * c >= bytes /\ (n - 1) * c < bytes

\* C36: the chunk count tryAcquire computes for a payload size is the smallest
\* number of chunks that holds the header and the payload: sizeof(UniqueData)
\* and BlockSize in UniqueDataPool, sizeof(UniqueRawDataHeader) and ChunkSize
\* in AllocatorBase.
C36_ChunkCountIsCeiling ==
    req.pc = "done" =>
        req.chunks = IF req.kind = "UniqueDataPool"
                     THEN MinChunks(SizeofUniqueData + req.size, BlockSize)
                     ELSE MinChunks(SizeofUniqueRawDataHeader + req.size, ChunkSize)

\* a step in which UniqueDataPool::acquire added a block to the list
Grew == Len(pool'.blocks) = Len(pool.blocks) + 1

\* the members of the Data block d
DataMembers(d) == <<d.numOfAcquired, d.offset, d.blockCount, d.flag>>

\* C37: a call of acquire that adds a block makes it the list's current
\* block, leaves the members of every block that existed as they were, and
\* returns a handle carved at chunk 0 of the new block.
C37_GrowthAddsOneBlock ==
    [][Grew =>
          LET new == Len(pool'.blocks)
          IN  /\ Len(pool'.list) = Len(pool.list) + 1
              /\ pool'.list[pool'.current] = new
              /\ \A b \in DOMAIN pool.blocks :
                     DataMembers(pool'.blocks[b]) = DataMembers(pool.blocks[b])
              /\ pud'[PoolOwner] = Base(new)]_vars

\* C38: in runs of complete calls made alike on the two queues, every pop
\* of the queue with the heap dummy returns what the same pop of the queue
\* with the embedded dummy returned: nullptr, or the handle at the same address.
C38_PopVariantsAgree ==
    (alt.call = "pop" /\ cpc = "idle" /\ cret # NONE) => cret = alt.ret

\* both pops have returned the same handle, the last of MaxPush handles delivered
C38_Witness ==
    /\ alt.call = "pop" /\ cpc = "idle"
    /\ cret \notin {NONE, NULL}
    /\ cret = alt.ret
    /\ Len(popSeq) = MaxPush

====
